---- MODULE Spec2Model ----
(***************************************************************************)
(* Collection (src/src/index.ts): a typed wrapper binding a PouchDB        *)
(* database, a collection name and a Zod schema.  The model holds the      *)
(* shared database, the store calls the wrapper has issued and not yet     *)
(* seen processed, and the position of every call that spans more than one *)
(* store call (update, removeById).                                        *)
(***************************************************************************)
EXTENDS Integers, Sequences, FiniteSets, Bags, TLC

(* ------------------------------ bounds -------------------------------- *)

\* highest revision generation a document reaches in the model
MaxGen == 2


(* ------------------------------ values -------------------------------- *)

Ids == {"a", "b"}

\* the callers that may have an update or a removeById in flight, each also
\* with at most one remove() it issued and the store has not yet processed
Callers == {"c1"}

\* the store's default result order of find: ascending _id
IdOrder == <<"a", "b">>


Str(s) == <<"string", s>>
Num(n) == <<"number", n>>
TypeOf(v) == v[1]

EmptyDoc == [f \in {} |-> Str("")]

Restrict(d, S) == [f \in (DOMAIN d) \cap S |-> d[f]]
Without(d, S) == [f \in (DOMAIN d) \ S |-> d[f]]

\* "<generation>-<hash>"
RevString(g, h) == ToString(g) \o "-" \o h

\* revisions of a lineage are linear here (no replication): the store's hash
\* is fixed per document id
Generation(rev) ==
    IF \E g \in 1..(MaxGen + 1) : \E i \in Ids : rev = RevString(g, i)
    THEN CHOOSE g \in 1..(MaxGen + 1) : \E i \in Ids : rev = RevString(g, i)
    ELSE 0

(* ------------------------------ schemas ------------------------------- *)

\* a schema: field |-> <<type, required>>
BaseSchema ==
    ("_id" :> <<"string", TRUE>>) @@ ("_rev" :> <<"string", FALSE>>)

UserSchema == BaseSchema @@ ("name" :> <<"string", TRUE>>)

OtherSchema == UserSchema @@ ("other" :> <<"string", TRUE>>)

BadSchema == ("foo" :> <<"string", TRUE>>)

\* the Collection instances sharing the one database
Instances == {"users", "other", "bad"}

\* the instances with a schema that declares _id: the ones that can read
Readers == {"users", "other"}

collectionName(inst) == IF inst = "other" THEN "other" ELSE "users"

schema(inst) ==
    CASE inst = "users" -> UserSchema
      [] inst = "other" -> OtherSchema
      [] OTHER -> BadSchema

\* z.object(...).parse: every required key present, every declared key that
\* is present has the declared type; unknown keys are stripped
ParseOk(s, data) ==
    /\ \A f \in DOMAIN s : s[f][2] => f \in DOMAIN data
    /\ \A f \in (DOMAIN s) \cap (DOMAIN data) : TypeOf(data[f]) = s[f][1]

ParseValue(s, data) == Restrict(data, DOMAIN s)

(* ------------------- the database (PouchDB boundary) ------------------ *)

\* a stored entry: [rev, deleted, body]; body holds every field but _id, _rev
Entry(rev, deleted, body) == [rev |-> rev, deleted |-> deleted, body |-> body]

Live(st, id) == id \in DOMAIN st /\ ~st[id].deleted

Upd(st, id, e) == [i \in (DOMAIN st) \cup {id} |-> IF i = id THEN e ELSE st[i]]

FullDoc(st, id) ==
    st[id].body @@ ("_id" :> Str(id)) @@ ("_rev" :> Str(st[id].rev))

\* a store numbering every write of an id as its first
NextRev_FromOne(st, id) == RevString(1, id)

NextRev(st, id) ==
    RevString(IF id \in DOMAIN st THEN Generation(st[id].rev) + 1 ELSE 1, id)

\* database.get(id): 'missing' for an absent or deleted id
dbGet(st, id) ==
    IF Live(st, id)
    THEN [status |-> "ok", doc |-> FullDoc(st, id)]
    ELSE [status |-> "missing", doc |-> EmptyDoc]

\* the store's optimistic concurrency check of a put
PutAccepted(st, id, doc) ==
    IF id \notin DOMAIN st THEN "_rev" \notin DOMAIN doc
    ELSE IF st[id].deleted
         THEN "_rev" \notin DOMAIN doc \/ doc["_rev"] = Str(st[id].rev)
         ELSE "_rev" \in DOMAIN doc /\ doc["_rev"] = Str(st[id].rev)

\* database.put(doc): '_id is required for puts' without _id, 'Document
\* update conflict' on a revision mismatch, else a new revision
dbPut(st, doc) ==
    IF "_id" \notin DOMAIN doc
    THEN [status |-> "missing_id", rev |-> "", store |-> st]
    ELSE LET id == doc["_id"][2] IN
         IF PutAccepted(st, id, doc)
         THEN [status |-> "ok", rev |-> NextRev(st, id),
               store |-> Upd(st, id, Entry(NextRev(st, id), FALSE,
                                           Without(doc, {"_id", "_rev"})))]
         ELSE [status |-> "conflict", rev |-> "", store |-> st]

\* database.remove(doc): a put of the tombstone {_id, _rev, _deleted}
dbRemove(st, doc) ==
    LET id == doc["_id"][2] IN
    IF id \notin DOMAIN st
    THEN [status |-> "missing", rev |-> "", store |-> st]
    ELSE IF st[id].deleted \/ doc["_rev"] # Str(st[id].rev)
    THEN [status |-> "conflict", rev |-> "", store |-> st]
    ELSE [status |-> "ok", rev |-> NextRev(st, id),
          store |-> Upd(st, id, Entry(NextRev(st, id), TRUE, EmptyDoc))]

Range(q) == {q[k] : k \in 1..Len(q)}

Matches(doc, sel) == \A k \in DOMAIN sel : k \in DOMAIN doc /\ doc[k] = sel[k]

\* database.find(request): the live documents the selector matches, in _id
\* order, projected on request.fields when given
dbFind(st, request) ==
    LET hit(i) == Live(st, i) /\ Matches(FullDoc(st, i), request["selector"])
        out(i) == IF "fields" \in DOMAIN request
                  THEN Restrict(FullDoc(st, i), Range(request["fields"]))
                  ELSE FullDoc(st, i)
        ids == SelectSeq(IdOrder, hit)
    IN [k \in 1..Len(ids) |-> out(ids[k])]

(* ----------------------------- Collection ----------------------------- *)

\* doc.$collection = this.collectionName
Tag(doc, name) == ("$collection" :> Str(name)) @@ doc

\* doc._rev = existing._rev
SetRev(doc, existing) == ("_rev" :> existing["_rev"]) @@ doc

\* put as an upsert: the stored revision replaces the caller's _rev
put_Upsert(st, inst, data) ==
    IF ~ParseOk(schema(inst), data)
    THEN [status |-> "validation", rev |-> "", store |-> st, calls |-> <<>>]
    ELSE LET parsed == ParseValue(schema(inst), data)
             id == IF "_id" \in DOMAIN parsed THEN parsed["_id"][2] ELSE ""
             doc == Tag(IF id \in DOMAIN st
                        THEN ("_rev" :> Str(st[id].rev)) @@ parsed
                        ELSE parsed, collectionName(inst))
             r == dbPut(st, doc)
         IN [status |-> r.status, rev |-> r.rev, store |-> r.store,
             calls |-> <<"put">>]

\* put handing the caller's data to the store before it is validated
put_WriteFirst(st, inst, data) ==
    LET r == dbPut(st, Tag(data, collectionName(inst))) IN
    IF ~ParseOk(schema(inst), data)
    THEN [status |-> "validation", rev |-> "", store |-> r.store,
          calls |-> <<"put">>]
    ELSE [status |-> r.status, rev |-> r.rev, store |-> r.store,
          calls |-> <<"put">>]

\* put with a check of its own for _id, ahead of the store call
put_ChecksId(st, inst, data) ==
    IF ~ParseOk(schema(inst), data)
    THEN [status |-> "validation", rev |-> "", store |-> st, calls |-> <<>>]
    ELSE LET doc == Tag(ParseValue(schema(inst), data), collectionName(inst))
             r == dbPut(st, doc)
         IN IF "_id" \notin DOMAIN doc
            THEN [status |-> "missing_id", rev |-> "", store |-> st,
                  calls |-> <<>>]
            ELSE [status |-> r.status, rev |-> r.rev, store |-> r.store,
                  calls |-> <<"put">>]

\* Collection.put: parse, tag, database.put
put(st, inst, data) ==
    IF ~ParseOk(schema(inst), data)
    THEN [status |-> "validation", rev |-> "", store |-> st, calls |-> <<>>]
    ELSE LET doc == Tag(ParseValue(schema(inst), data), collectionName(inst))
             r == dbPut(st, doc)
         IN [status |-> r.status, rev |-> r.rev, store |-> r.store,
             calls |-> <<"put">>]

\* update fetching with a get that also returns deleted documents
updateFetch_SeesTombstones(st, inst, data) ==
    IF ~ParseOk(schema(inst), data)
    THEN [status |-> "validation", doc |-> EmptyDoc, existing |-> EmptyDoc,
          calls |-> <<>>]
    ELSE LET doc == ParseValue(schema(inst), data) IN
         IF "_id" \notin DOMAIN doc
         THEN [status |-> "invalid_id", doc |-> doc, existing |-> EmptyDoc,
               calls |-> <<"get">>]
         ELSE IF doc["_id"][2] \in DOMAIN st
         THEN [status |-> "ok", doc |-> doc,
               existing |-> FullDoc(st, doc["_id"][2]), calls |-> <<"get">>]
         ELSE [status |-> "missing", doc |-> doc, existing |-> EmptyDoc,
               calls |-> <<"get">>]

\* update answering 'missing' for a document tagged with another
\* collection's name
updateFetch_Scoped(st, inst, data) ==
    IF ~ParseOk(schema(inst), data)
    THEN [status |-> "validation", doc |-> EmptyDoc, existing |-> EmptyDoc,
          calls |-> <<>>]
    ELSE LET doc == ParseValue(schema(inst), data) IN
         IF "_id" \notin DOMAIN doc
         THEN [status |-> "invalid_id", doc |-> doc, existing |-> EmptyDoc,
               calls |-> <<"get">>]
         ELSE LET g == dbGet(st, doc["_id"][2]) IN
              IF /\ g.status = "ok"
                 /\ g.doc["$collection"] # Str(collectionName(inst))
              THEN [status |-> "missing", doc |-> doc, existing |-> EmptyDoc,
                    calls |-> <<"get">>]
              ELSE [status |-> g.status, doc |-> doc, existing |-> g.doc,
                    calls |-> <<"get">>]

\* Collection.update up to its await of database.get(doc._id)
updateFetch(st, inst, data) ==
    IF ~ParseOk(schema(inst), data)
    THEN [status |-> "validation", doc |-> EmptyDoc, existing |-> EmptyDoc,
          calls |-> <<>>]
    ELSE LET doc == ParseValue(schema(inst), data) IN
         IF "_id" \notin DOMAIN doc
         THEN [status |-> "invalid_id", doc |-> doc, existing |-> EmptyDoc,
               calls |-> <<"get">>]
         ELSE LET g == dbGet(st, doc["_id"][2]) IN
              [status |-> g.status, doc |-> doc, existing |-> g.doc,
               calls |-> <<"get">>]

\* update taking the fetched _rev only when the caller gave none
updateDoc_KeepRev(inst, doc, existing) ==
    IF "_rev" \in DOMAIN doc THEN Tag(doc, collectionName(inst))
    ELSE SetRev(Tag(doc, collectionName(inst)), existing)

\* update without the line doc.$collection = this.collectionName
updateDoc_NoTag(inst, doc, existing) == SetRev(doc, existing)

\* the document Collection.update hands to database.put
updateDoc(inst, doc, existing) ==
    SetRev(Tag(doc, collectionName(inst)), existing)

\* find sending the caller's projection as it came
findFields_AsGiven(options) == options

\* options.fields = [...options.fields, '_id', '_rev'], assigned to the
\* caller's object
findFields(options) ==
    IF "fields" \in DOMAIN options
    THEN ("fields" :> (options["fields"] \o <<"_id", "_rev">>)) @@ options
    ELSE options

\* the tag used as a default only: a caller's selector is sent as it came
findRequest_TagByDefault(inst, options) ==
    IF "selector" \in DOMAIN options THEN options
    ELSE ("selector" :> Tag(EmptyDoc, collectionName(inst))) @@ options

\* the spread written after the tag: a caller's $collection wins
findRequest_CallerWins(inst, options) ==
    LET sel == IF "selector" \in DOMAIN options THEN options["selector"]
               ELSE EmptyDoc
    IN ("selector" :> (sel @@ ("$collection" :> Str(collectionName(inst)))))
       @@ options

\* {...options, selector: {...options?.selector, $collection: collectionName}}
findRequest(inst, options) ==
    LET sel == IF "selector" \in DOMAIN options THEN options["selector"]
               ELSE EmptyDoc
    IN ("selector" :> Tag(sel, collectionName(inst))) @@ options

\* find leaving out the documents that fail validation
find_SkipsInvalid(st, inst, options) ==
    LET mutated == findFields(options)
        request == findRequest(inst, mutated)
        docs == dbFind(st, request)
        good(doc) == ParseOk(schema(inst), doc)
        kept == SelectSeq(docs, good)
    IN [status |-> "ok",
        docs |-> [k \in 1..Len(kept) |-> ParseValue(schema(inst), kept[k])],
        calls |-> <<"find">>, options |-> mutated, request |-> request]

\* Collection.find: one database.find, then docs.map(schema.parse)
find(st, inst, options) ==
    LET mutated == findFields(options)
        request == findRequest(inst, mutated)
        docs == dbFind(st, request)
        parsed == [k \in 1..Len(docs) |-> ParseValue(schema(inst), docs[k])]
    IN IF \A k \in 1..Len(docs) : ParseOk(schema(inst), docs[k])
       THEN [status |-> "ok", docs |-> parsed, calls |-> <<"find">>,
             options |-> mutated, request |-> request]
       ELSE [status |-> "validation", docs |-> <<>>, calls |-> <<"find">>,
             options |-> mutated, request |-> request]

\* findById returning the stored document as the store gave it
findById_NoParse(st, inst, id) ==
    LET g == dbGet(st, id) IN
    IF g.status # "ok"
    THEN [status |-> g.status, docs |-> <<>>]
    ELSE [status |-> "ok", docs |-> <<g.doc>>]

\* findById answering 'missing' for a document tagged with another
\* collection's name
findById_Scoped(st, inst, id) ==
    LET g == dbGet(st, id) IN
    IF g.status # "ok"
    THEN [status |-> g.status, docs |-> <<>>]
    ELSE IF g.doc["$collection"] # Str(collectionName(inst))
    THEN [status |-> "missing", docs |-> <<>>]
    ELSE IF ParseOk(schema(inst), g.doc)
    THEN [status |-> "ok", docs |-> <<ParseValue(schema(inst), g.doc)>>]
    ELSE [status |-> "validation", docs |-> <<>>]

\* Collection.findById: database.get, then schema.parse
findById(st, inst, id) ==
    LET g == dbGet(st, id) IN
    IF g.status # "ok"
    THEN [status |-> g.status, docs |-> <<>>]
    ELSE IF ParseOk(schema(inst), g.doc)
    THEN [status |-> "ok", docs |-> <<ParseValue(schema(inst), g.doc)>>]
    ELSE [status |-> "validation", docs |-> <<>>]

(* ------------------------------- inputs ------------------------------- *)

Opt(k, V) == {EmptyDoc} \cup {k :> v : v \in V}

\* a caller's _rev: a revision the store issued for the id, or a made-up one
CallerRevs(i) == {Str(RevString(g, i)) : g \in 1..MaxGen} \cup {Str("1-z")}

\* the schema-valid bodies: of users; of other, with a key UserSchema does
\* not declare
Bodies ==
    {"name" :> Str("X"), "name" :> Str("Y"),
     ("name" :> Str("X")) @@ ("other" :> Str("thing"))}

\* bodies with a wrong type, a required key missing, a $collection of the
\* caller's
OddBodies ==
    {"name" :> Num(69), EmptyDoc,
     ("name" :> Str("Y")) @@ ("$collection" :> Str("other"))}

DataWith(revs) ==
    {"foo" :> Str("bar"), ("_id" :> Str("a")) @@ ("foo" :> Str("bar")),
     "name" :> Str("X")}
    \cup UNION {{("_id" :> Str(i)) @@ r @@ b :
                    r \in Opt("_rev", revs[i]), b \in Bodies} : i \in Ids}
    \cup {("_id" :> Str(i)) @@ b : i \in Ids, b \in OddBodies}

\* the documents callers pass to put
Data == DataWith([i \in Ids |-> CallerRevs(i)])

StaleRevs(i) == {Str(RevString(1, i)), Str("1-z")}

\* the documents callers pass to update
UpdateData == DataWith([i \in Ids |-> StaleRevs(i)])

Selectors ==
    {"name" :> Str("X"), "other" :> Str("thing"), "$collection" :> Str("other"),
     ("$collection" :> Str("other")) @@ ("name" :> Str("X"))}

\* the last one names _id itself
FieldLists == {<<"name">>, <<"other">>, <<"_id", "name">>}

\* the query descriptors callers pass to find; find() is the empty one
Options ==
    {EmptyDoc} \cup {"selector" :> x : x \in Selectors}
    \cup {"fields" :> f : f \in FieldLists}

(* ------------------------------- state -------------------------------- *)

VARIABLES
    store,      \* the database: id |-> entry, for every id ever written
    inflight,   \* bag of update/removeById calls between their get and their
                \* next store call
    pending,    \* bag of remove(doc) calls issued, not yet processed
    ret,        \* the step just taken: which call, what it returned, which
                \* store calls it made; None once the caller has taken it
    lastWriter, \* live id |-> the instance whose write succeeded last on it
    callers     \* the callers of this run; it never changes

vars == <<store, inflight, pending, ret, lastWriter, callers>>

\* op, inst, id: the call; status, rev, docs: what it returned ("pending":
\* nothing yet); calls: the store calls of the step; input: the caller's data
\* (of a put that conflicted: its _id and _rev); seen: the revision the
\* call's get returned; valid: whether the caller's data satisfies the schema;
\* of a find, input is the options object as the caller passed it, options
\* the same object once find has returned, request what database.find got
Event(op, inst, id, status, rev, docs, calls, input, seen, valid) ==
    [op |-> op, inst |-> inst, id |-> id, status |-> status, rev |-> rev,
     docs |-> docs, calls |-> calls, input |-> input, seen |-> seen,
     valid |-> valid, options |-> EmptyDoc, request |-> EmptyDoc]

None == Event("none", "", "", "", "", <<>>, <<>>, EmptyDoc, "", TRUE)

\* of a fetched document, update and remove read only _id and _rev
RevOf(doc) == Restrict(doc, {"_id", "_rev"})

IdOf(data) == IF "_id" \in DOMAIN data THEN data["_id"][2] ELSE ""

Free == BagCardinality(inflight) < Cardinality(callers)

Init ==
    /\ store = [i \in {} |-> Entry("", FALSE, EmptyDoc)]
    /\ inflight = EmptyBag
    /\ pending = EmptyBag
    /\ ret = None
    /\ lastWriter = [i \in {} |-> ""]
    /\ callers = Callers

\* await collection.put(data)
Put(inst, data) ==
    LET r == put(store, inst, data)
        id == IdOf(data)
    IN /\ ret = None
       /\ r.status = "ok" => Generation(r.rev) <= MaxGen
       /\ store' = r.store
       /\ IF r.status = "ok"
          THEN /\ ret' = Event("put", inst, id, "ok", r.rev, <<>>, r.calls,
                               data, "", TRUE)
               /\ lastWriter' = Upd(lastWriter, id, inst)
          ELSE /\ ret' = Event("put", inst, id, r.status, "", <<>>, r.calls,
                               IF r.status = "conflict" THEN RevOf(data)
                               ELSE EmptyDoc, "",
                               ParseOk(schema(inst), data))
               /\ UNCHANGED lastWriter
       /\ UNCHANGED <<inflight, pending, callers>>

\* collection.update(data) up to the result of its database.get
UpdateFetch(inst, data) ==
    LET r == updateFetch(store, inst, data)
        id == IdOf(data)
    IN /\ ret = None
       /\ Free
       /\ IF r.status = "ok"
          THEN /\ inflight' = inflight (+) SetToBag({[op |-> "update",
                      inst |-> inst, doc |-> r.doc, existing |-> RevOf(r.existing)]})
               /\ ret' = Event("update", inst, id, "pending", "", <<>>,
                               r.calls, EmptyDoc, r.existing["_rev"][2], TRUE)
          ELSE /\ inflight' = inflight
               /\ ret' = Event("update", inst, id, r.status, "", <<>>,
                               r.calls, EmptyDoc, "",
                               ParseOk(schema(inst), data))
       /\ UNCHANGED <<store, pending, lastWriter, callers>>

\* update fetching again, to write once more, when its put is rejected as a
\* conflict
UpdateWrite_Retry(c) ==
    LET doc == updateDoc(c.inst, c.doc, c.existing)
        r == dbPut(store, doc)
        id == IdOf(c.doc)
        again == dbGet(store, id)
        retry == r.status = "conflict" /\ again.status = "ok"
    IN /\ ret = None
       /\ c.op = "update"
       /\ r.status = "ok" => Generation(r.rev) <= MaxGen
       /\ inflight' = IF retry
                      THEN (inflight (-) SetToBag({c}))
                           (+) SetToBag({[c EXCEPT !.existing = RevOf(again.doc)]})
                      ELSE inflight (-) SetToBag({c})
       /\ store' = r.store
       /\ ret' = Event("update", c.inst, id,
                       IF retry THEN "pending" ELSE r.status, r.rev, <<>>,
                       <<"put">>, c.doc, c.existing["_rev"][2], TRUE)
       /\ IF r.status = "ok"
          THEN /\ lastWriter' = Upd(lastWriter, id, c.inst)
          ELSE UNCHANGED lastWriter
       /\ UNCHANGED <<pending, callers>>

\* the rest of collection.update: tag, take the fetched _rev, database.put
UpdateWrite(c) ==
    LET doc == updateDoc(c.inst, c.doc, c.existing)
        r == dbPut(store, doc)
        id == IdOf(c.doc)
    IN /\ ret = None
       /\ c.op = "update"
       /\ r.status = "ok" => Generation(r.rev) <= MaxGen
       /\ inflight' = inflight (-) SetToBag({c})
       /\ store' = r.store
       /\ ret' = Event("update", c.inst, id, r.status, r.rev, <<>>,
                       <<"put">>, c.doc, c.existing["_rev"][2], TRUE)
       /\ IF r.status = "ok"
          THEN /\ lastWriter' = Upd(lastWriter, id, c.inst)
          ELSE UNCHANGED lastWriter
       /\ UNCHANGED <<pending, callers>>

\* collection.removeById(id) up to the result of its database.get
RemoveFetch(inst, id) ==
    LET g == dbGet(store, id) IN
    /\ ret = None
    /\ Free
    /\ IF g.status = "ok"
       THEN /\ inflight' = inflight (+) SetToBag({[op |-> "removeById",
                   inst |-> "", doc |-> EmptyDoc, existing |-> RevOf(g.doc)]})
            /\ ret' = Event("removeById", inst, id, "pending", "", <<>>,
                            <<"get">>, EmptyDoc, g.doc["_rev"][2], TRUE)
       ELSE /\ inflight' = inflight
            /\ ret' = Event("removeById", inst, id, g.status, "", <<>>,
                            <<"get">>, EmptyDoc, "", TRUE)
    /\ UNCHANGED <<store, pending, lastWriter, callers>>

\* the rest of collection.removeById: database.remove(doc) is called and not
\* awaited, and the call returns
RemoveIssue(c) ==
    LET id == IdOf(c.existing) IN
    /\ ret = None
    /\ c.op = "removeById"
    /\ BagCardinality(pending) < Cardinality(callers)
    /\ inflight' = inflight (-) SetToBag({c})
    /\ pending' = pending (+) SetToBag({c.existing})
    /\ ret' = Event("removeById", c.inst, id, "ok", "", <<>>,
                    <<"remove">>, EmptyDoc, c.existing["_rev"][2], TRUE)
    /\ UNCHANGED <<store, lastWriter, callers>>

\* the database processes a remove(doc) issued earlier; nobody reads its result
StoreRemove(doc) ==
    LET r == dbRemove(store, doc)
        id == IdOf(doc)
    IN /\ ret = None
       /\ r.status = "ok" => Generation(r.rev) <= MaxGen
       /\ pending' = pending (-) SetToBag({doc})
       /\ store' = r.store
       /\ ret' = Event("remove", "", id, r.status, r.rev, <<>>, <<>>,
                       EmptyDoc, doc["_rev"][2], TRUE)
       /\ lastWriter' = IF r.status = "ok" THEN Without(lastWriter, {id})
                        ELSE lastWriter
       /\ UNCHANGED <<inflight, callers>>

\* await collection.findById(id)
FindById(inst, id) ==
    LET r == findById(store, inst, id) IN
    /\ ret = None
    /\ ret' = Event("findById", inst, id, r.status, "", r.docs, <<"get">>,
                    EmptyDoc, "", TRUE)
    /\ UNCHANGED <<store, inflight, pending, lastWriter, callers>>

\* await collection.find(options)
Find(inst, options) ==
    LET r == find(store, inst, options) IN
    /\ ret = None
    /\ ret' = [Event("find", inst, "", r.status, "", r.docs, r.calls,
                     options, "", TRUE)
                   EXCEPT !.options = r.options, !.request = r.request]
    /\ UNCHANGED <<store, inflight, pending, lastWriter, callers>>

\* the caller takes the outcome of the step; the next step starts from here
Return ==
    /\ ret # None
    /\ ret' = None
    /\ UNCHANGED <<store, inflight, pending, lastWriter, callers>>

Next ==
    \/ \E inst \in Instances, data \in Data : Put(inst, data)
    \/ \E inst \in Instances, data \in UpdateData : UpdateFetch(inst, data)
    \/ \E c \in BagToSet(inflight) : UpdateWrite(c)
    \/ \E inst \in Readers, id \in Ids : RemoveFetch(inst, id)
    \/ \E c \in BagToSet(inflight) : RemoveIssue(c)
    \/ \E doc \in BagToSet(pending) : StoreRemove(doc)
    \/ \E inst \in Readers, id \in Ids : FindById(inst, id)
    \/ \E inst \in Readers, options \in Options : Find(inst, options)
    \/ Return

Spec == Init /\ [][Next]_vars

(* ------------- two callers writing the same document ------------------ *)

\* two callers, each with its own update or removeById in flight
TwoCallers == {"c1", "c2"}

\* the one document they all write
Contended == "a"

ContendedData == {d \in Data : IdOf(d) = Contended}

ContendedUpdates ==
    {d \in UpdateData : IdOf(d) = Contended /\ "_rev" \notin DOMAIN d}

ContendedInit ==
    /\ store = [i \in {} |-> Entry("", FALSE, EmptyDoc)]
    /\ inflight = EmptyBag
    /\ pending = EmptyBag
    /\ ret = None
    /\ lastWriter = [i \in {} |-> ""]
    /\ callers = TwoCallers

ContendedNext ==
    \/ \E inst \in Instances, data \in ContendedData : Put(inst, data)
    \/ \E inst \in Instances, data \in ContendedUpdates :
           UpdateFetch(inst, data)
    \/ \E c \in BagToSet(inflight) : UpdateWrite(c)
    \/ \E inst \in Readers : RemoveFetch(inst, Contended)
    \/ \E c \in BagToSet(inflight) : RemoveIssue(c)
    \/ \E doc \in BagToSet(pending) : StoreRemove(doc)
    \/ Return

ContendedSpec == ContendedInit /\ [][ContendedNext]_vars

(* ------------------------------- claims ------------------------------- *)

PutReturned == ret.op = "put" /\ ret.status = "ok"

C2_PutConcurrency ==
    [][(ret'.op = "put" /\ ret'.valid /\ ret'.id \in Ids
        /\ "_id" \in DOMAIN schema(ret'.inst)) =>
            LET id == ret'.id IN
            /\ Live(store, id) =>
                 IF /\ ret'.status \in {"ok", "conflict"}
                    /\ "_rev" \in DOMAIN ret'.input
                    /\ ret'.input["_rev"] = Str(store[id].rev)
                 THEN /\ ret'.status = "ok"
                      /\ ret'.input["_id"] = Str(id)
                      /\ Generation(ret'.rev) = Generation(store[id].rev) + 1
                      /\ store'[id].rev = ret'.rev
                 ELSE /\ ret'.status = "conflict"
                      /\ store' = store
            /\ (id \notin DOMAIN store /\ ret'.status = "ok") =>
                 Generation(ret'.rev) = 1
            /\ (id \notin DOMAIN store /\ ret'.status = "conflict") =>
                 "_rev" \in DOMAIN ret'.input
    ]_vars

\* a put with the current _rev has brought a document to generation 2
C2_Witness ==
    /\ PutReturned
    /\ "_rev" \in DOMAIN ret.input
    /\ Generation(ret.rev) = 2

\* C3: every live document carries $collection, equal to the collection name
\* of the instance whose put or update wrote it, whatever $collection the
\* caller's data had.
C3_CollectionTag ==
    \A id \in DOMAIN store :
        ~store[id].deleted =>
            /\ id \in DOMAIN lastWriter
            /\ "$collection" \in DOMAIN store[id].body
            /\ store[id].body["$collection"]
                   = Str(collectionName(lastWriter[id]))

\* users has put data that came with $collection "other"
C3_Witness ==
    /\ PutReturned
    /\ ret.inst = "users"
    /\ "$collection" \in DOMAIN ret.input
    /\ ret.input["$collection"] = Str("other")
    /\ \E id \in DOMAIN store : id # ret.id /\ Live(store, id)

\* C4: find on an instance returns no document whose last write went through
\* an instance of another collection name, whatever the caller's selector.
C4_FindIsolation ==
    (ret.op = "find" /\ ret.status = "ok") =>
        \A k \in 1..Len(ret.docs) :
            LET id == ret.docs[k]["_id"][2] IN
            /\ id \in DOMAIN lastWriter
            /\ collectionName(lastWriter[id]) = collectionName(ret.inst)

\* find has returned a document while a live document of the other
\* collection is in the store
C4_Witness ==
    /\ ret.op = "find"
    /\ ret.status = "ok"
    /\ Len(ret.docs) = 1
    /\ \E id \in DOMAIN store :
           /\ Live(store, id)
           /\ collectionName(lastWriter[id]) # collectionName(ret.inst)

RemoveReturned == ret.op = "removeById" /\ ret.status = "ok"

\* the store once it has processed the remove(doc) the removeById that has
\* just returned issued
AfterItsRemove ==
    dbRemove(store, ("_id" :> Str(ret.id)) @@ ("_rev" :> Str(ret.seen))).store

\* C5: once removeById(id) has returned successfully, a findById(id) issued
\* afterwards fails with 'missing'; stated for the findById the store serves
\* after it has processed the removeById's remove.
C5_RemovedThenMissing ==
    RemoveReturned =>
        \A inst \in Readers :
            findById(AfterItsRemove, inst, ret.id).status = "missing"

\* C6: a find() issued after removeById(id) has returned successfully does
\* not include the document with that id; stated for the find the store
\* serves after it has processed the removeById's remove.
C6_RemovedThenNotFound ==
    RemoveReturned =>
        \A inst \in Readers :
            LET f == find(AfterItsRemove, inst, EmptyDoc) IN
            \A k \in 1..Len(f.docs) : f.docs[k]["_id"] # Str(ret.id)

\* C7: update of schema-valid data whose id is live is not rejected by its
\* fetch, with or without a _rev of the caller's; if the stored revision is
\* still the fetched one when update writes, the write succeeds, and the
\* stored document is then the validated data, tagged, at a revision one
\* generation higher.
C7_UpdateNeedsNoRev ==
    [][(ret'.op = "update" /\ ret'.valid /\ ret'.id \in Ids
        /\ "_id" \in DOMAIN schema(ret'.inst) /\ Live(store, ret'.id)) =>
            LET id == ret'.id IN
            /\ ret'.calls = <<"get">> =>
                 /\ ret'.status = "pending"
                 /\ ret'.seen = store[id].rev
            /\ (ret'.calls = <<"put">> /\ store[id].rev = ret'.seen) =>
                 /\ ret'.status = "ok"
                 /\ Generation(ret'.rev) = Generation(store[id].rev) + 1
                 /\ store'[id] =
                        Entry(ret'.rev, FALSE,
                              Tag(Without(ret'.input, {"_id", "_rev"}),
                                  collectionName(ret'.inst)))
    ]_vars

\* an update whose data came with a _rev that is not the stored one has
\* succeeded and changed the name
C7_Witness ==
    /\ ret.op = "update"
    /\ ret.status = "ok"
    /\ "_rev" \in DOMAIN ret.input
    /\ ret.input["_rev"] # Str(ret.seen)
    /\ store[ret.id].body["name"] = Str("Y")

\* C8: update (of schema-valid data), removeById and findById on an id that
\* is absent from the store or tombstoned fail with 'missing', and the step
\* changes nothing in the store and issues no put and no remove.
C8_NotFound ==
    [][(/\ ret'.op \in {"update", "removeById", "findById"}
        /\ ret'.calls = <<"get">>
        /\ ret'.valid
        /\ ret'.id \in Ids
        /\ ret'.op = "update" => "_id" \in DOMAIN schema(ret'.inst)
        /\ ~Live(store, ret'.id)) =>
            /\ ret'.status = "missing"
            /\ store' = store
            /\ pending' = pending
            /\ inflight' = inflight
    ]_vars

\* an update of a tombstoned id has failed with 'missing'
C8_Witness ==
    /\ ret.op = "update"
    /\ ret.status = "missing"
    /\ ret.id \in DOMAIN store
    /\ store[ret.id].deleted

\* C9: put and update of data that fails schema validation reject with the
\* validation error, make no store call and leave the store as it was.
C9_InvalidInput ==
    [][(ret'.op \in {"put", "update"} /\ ~ret'.valid) =>
            /\ ret'.status = "validation"
            /\ ret'.calls = <<>>
            /\ store' = store
            /\ pending' = pending
            /\ inflight' = inflight
    ]_vars

\* a put of invalid data for a stored id has been rejected
C9_Witness ==
    /\ ret.op = "put"
    /\ ret.status = "validation"
    /\ ~ret.valid
    /\ Live(store, ret.id)

PutWithoutId ==
    ret.op = "put" /\ ret.valid /\ "_id" \notin DOMAIN schema(ret.inst)

\* C10 as amended: when the schema does not declare _id, put of valid data
\* fails with '_id is required for puts'; the error is the store's: the
\* wrapper makes its one database.put call, which the store rejects without
\* writing.
C10_StoreRejectsMissingId ==
    [][PutWithoutId' =>
            /\ ret'.status = "missing_id"
            /\ ret'.calls = <<"put">>
            /\ store' = store
    ]_vars

\* C10 as stated: the error is raised before any call to the store.
C10_RaisedBeforeStore ==
    PutWithoutId => (ret.status = "missing_id" /\ ret.calls = <<>>)

\* put on the instance with BadSchema has failed for want of an _id, with
\* documents in the store
C10_Witness ==
    /\ ret.op = "put"
    /\ ret.status = "missing_id"
    /\ \E id \in DOMAIN store : Live(store, id)

\* C11: no operation reports success while one of its store calls failed;
\* stated for removeById, every one of whose remove(doc) calls was issued by
\* a removeById that then returned successfully: the store does not reject
\* that remove.
C11_FailurePropagates ==
    ret.op = "remove" => ret.status = "ok"

\* C12: an update whose document got another revision between its get and
\* its put fails with the conflict error, changes nothing in the store and
\* makes no further store call; when an update succeeds, every update still
\* in flight that fetched the same revision of the same id is stale, and its
\* put is rejected as a conflict.
C12_UpdateRace ==
    [][(ret'.op = "update" /\ ret'.calls = <<"put">>) =>
            LET id == ret'.id IN
            /\ store[id].rev # ret'.seen =>
                 /\ ret'.status = "conflict"
                 /\ store' = store
                 /\ pending' = pending
                 /\ BagCardinality(inflight')
                        = BagCardinality(inflight) - 1
            /\ ret'.status = "ok" =>
                 \A c \in BagToSet(inflight') :
                     (/\ c.op = "update"
                      /\ IdOf(c.doc) = id
                      /\ c.existing["_rev"] = Str(ret'.seen)) =>
                         /\ Generation(c.existing["_rev"][2])
                                < Generation(store'[id].rev)
                         /\ dbPut(store', updateDoc(c.inst, c.doc, c.existing)).status
                                = "conflict"
    ]_vars

\* of two updates that fetched the same revision of a document, one has
\* succeeded and the other has yet to write
C12_Witness ==
    /\ ret.op = "update"
    /\ ret.status = "ok"
    /\ \E c \in BagToSet(inflight) :
           /\ c.op = "update"
           /\ IdOf(c.doc) = ret.id
           /\ c.existing["_rev"] = Str(ret.seen)

\* C13: when the caller's options name fields, the projection find sends to
\* the store is the caller's fields and _id and _rev, and every document find
\* returns has _id and _rev and, besides them, only fields the caller named.
C13_ProjectionKeepsIdRev ==
    (ret.op = "find" /\ "fields" \in DOMAIN ret.input) =>
        LET asked == Range(ret.input["fields"]) IN
        /\ "fields" \in DOMAIN ret.request
        /\ Range(ret.request["fields"]) = asked \cup {"_id", "_rev"}
        /\ \A k \in 1..Len(ret.docs) :
               /\ {"_id", "_rev"} \subseteq DOMAIN ret.docs[k]
               /\ DOMAIN ret.docs[k] \subseteq asked \cup {"_id", "_rev"}

\* find({fields: ['name']}) has returned two documents
C13_Witness ==
    /\ ret.op = "find"
    /\ ret.status = "ok"
    /\ ret.input = ("fields" :> <<"name">>)
    /\ Len(ret.docs) = 2
    /\ \A k \in 1..2 : DOMAIN ret.docs[k] = {"_id", "_rev", "name"}

\* C14: findById of a live id, whichever collection's instance wrote it last,
\* returns the stored document as this instance's schema parses it when the
\* document satisfies the schema, and fails with the validation error when it
\* does not.
C14_FindByIdUnscoped ==
    (ret.op = "findById" /\ Live(store, ret.id)) =>
        LET stored == FullDoc(store, ret.id) IN
        IF ParseOk(schema(ret.inst), stored)
        THEN /\ ret.status = "ok"
             /\ ret.docs = <<ParseValue(schema(ret.inst), stored)>>
        ELSE /\ ret.status = "validation"
             /\ ret.docs = <<>>

\* users.findById has returned a document that was written through other
C14_Witness ==
    /\ ret.op = "findById"
    /\ ret.inst = "users"
    /\ ret.status = "ok"
    /\ lastWriter[ret.id] = "other"
    /\ store[ret.id].body["$collection"] = Str("other")

\* C15: the selector find sends to the store has $collection equal to the
\* instance's collection name, whatever $collection the caller's selector
\* had, and every other key of the caller's selector with the caller's value,
\* and no further key.
C15_TagOverridesSelector ==
    ret.op = "find" =>
        LET given == IF "selector" \in DOMAIN ret.input
                     THEN ret.input["selector"] ELSE EmptyDoc
            sent == ret.request["selector"]
        IN /\ DOMAIN sent = (DOMAIN given) \cup {"$collection"}
           /\ sent["$collection"] = Str(collectionName(ret.inst))
           /\ \A k \in (DOMAIN given) \ {"$collection"} : sent[k] = given[k]

\* users.find with a selector naming the collection other and a name has
\* returned, with a document of that name stored through other
C15_Witness ==
    /\ ret.op = "find"
    /\ ret.inst = "users"
    /\ ret.status = "ok"
    /\ "selector" \in DOMAIN ret.input
    /\ DOMAIN ret.input["selector"] = {"$collection", "name"}
    /\ ret.input["selector"]["$collection"] = Str("other")
    /\ \E id \in DOMAIN store :
           /\ Live(store, id)
           /\ store[id].body["$collection"] = Str("other")
           /\ store[id].body["name"] = Str("X")
    /\ Len(ret.docs) = 1

GenOf(st, id) == IF id \in DOMAIN st THEN Generation(st[id].rev) ELSE 0

\* C17: in every step, for every id: a put, an update's write or a remove
\* that the store accepted for the id raises the generation of its current
\* revision by exactly one, to the generation of the revision returned; any
\* other step, failed calls included, leaves it as it was.
C17_RevisionMonotonic ==
    [][\A id \in Ids :
           IF /\ ret'.op \in {"put", "update", "remove"}
              /\ ret'.status = "ok"
              /\ ret'.id = id
           THEN /\ GenOf(store', id) = GenOf(store, id) + 1
                /\ Generation(ret'.rev) = GenOf(store', id)
           ELSE GenOf(store', id) = GenOf(store, id)
    ]_vars

\* the store has turned a document into a tombstone of generation 2
C17_Witness ==
    /\ ret.op = "remove"
    /\ ret.status = "ok"
    /\ store[ret.id].deleted
    /\ GenOf(store, ret.id) = 2

\* C18: when find returns, the options object the caller passed is as it was
\* before the call, and a second find with the same object would send the
\* store the request the first one sent.
C18_OptionsUntouched ==
    ret.op = "find" =>
        /\ ret.options = ret.input
        /\ findRequest(ret.inst, findFields(ret.options)) = ret.request

\* C19: a get that update or removeById makes through an instance for a live
\* document tagged with another collection's name succeeds, and the store
\* accepts a remove with the current revision whatever the tag; after a
\* successful put or update through an instance the document carries that
\* instance's collection name, find() returns it on the instances of that
\* name and on no other; after every step each live document's $collection
\* is the name of the instance whose write succeeded last on it.
C19_WritesUnscoped ==
    [][/\ (/\ ret'.op \in {"update", "removeById"}
           /\ ret'.calls = <<"get">>
           /\ ret'.valid
           /\ ret'.op = "update" => "_id" \in DOMAIN schema(ret'.inst)
           /\ Live(store, ret'.id)
           /\ store[ret'.id].body["$collection"]
                  # Str(collectionName(ret'.inst))) =>
              ret'.status = "pending"
       /\ (/\ ret'.op = "remove"
           /\ Live(store, ret'.id)
           /\ store[ret'.id].rev = ret'.seen) =>
              ret'.status = "ok"
       /\ (ret'.op \in {"put", "update"} /\ ret'.status = "ok") =>
              /\ store'[ret'.id].body["$collection"]
                     = Str(collectionName(ret'.inst))
              /\ \A reader \in Readers :
                     LET f == find(store', reader, EmptyDoc) IN
                     (\E k \in 1..Len(f.docs) :
                          f.docs[k]["_id"] = Str(ret'.id))
                     <=> collectionName(reader) = collectionName(ret'.inst)
       /\ \A id \in DOMAIN store' :
              Live(store', id) =>
                  store'[id].body["$collection"]
                      = Str(collectionName(lastWriter'[id]))
    ]_vars

\* an update through other of a live document that users wrote last has got
\* past its fetch
C19_Witness ==
    /\ ret.op = "update"
    /\ ret.status = "pending"
    /\ ret.inst = "other"
    /\ Live(store, ret.id)
    /\ lastWriter[ret.id] = "users"
    /\ store[ret.id].body["$collection"] = Str("users")

====
